---- MODULE Spec2Model ----
(***************************************************************************)
(* Two-way folder synchronisation of compare_and_sync.py: the planner      *)
(* get_actions, the applier copy_with_backup, the loop perform_sync and    *)
(* the main script around them.                                            *)
(*                                                                         *)
(* A relative path is a string, modelled as the sequence of its character  *)
(* codes, so that str comparison, Path.parent, Path.name and the ".bak"    *)
(* suffix are computed as Python computes them.  A folder is identified by *)
(* its side (1 or 2); the two folders are distinct and not nested.         *)
(*                                                                         *)
(* The file objects the planner holds are taken to be the regular files of *)
(* the two folders: a file has a content and a modification time, reading  *)
(* it may fail, and each call of the applier may fail at any of its steps. *)
(* log_action is called by the script but defined elsewhere; it is         *)
(* modelled as appending one line, a failed write being passed over.       *)
(***************************************************************************)
EXTENDS Naturals, Sequences, FiniteSets

VARIABLES
    fs,        \* fs[s]: the regular files beneath folder s, rel path -> [content, mtime]
    dirs,      \* dirs[s]: the directories beneath folder s (rel paths, root excluded)
    log,       \* log[s]: the lines log_action appended for folder s
    folder_files, \* folder_files[s]: rel paths of the files handed to the script for folder s
    use_hash,  \* the "Use SHA256 comparison" checkbox
    actions,   \* the plan returned by get_actions in this run
    shown,     \* the plan show_summary presented in this run
    confirmed, \* st.button returned True in this run
    pc,        \* position of the main script
    i,         \* perform_sync: 1-based index of the next action
    attempted, \* perform_sync: the indices handed to copy_with_backup, in order
    errors,    \* indices of the actions for which st.error was called
    warnings,  \* files for which get_file_hash called st.warning
    message,   \* the last st.info / st.success of the run
    progress,  \* progress bar: <<done, total>>
    run,       \* number of the current script run
    pre,       \* fs and dirs when the plan of this run was computed, and the
               \* files that could not be read for it (history)
    last,      \* the last call of copy_with_backup and what it found (history)
    prev,      \* how the previous run ended (history)
    faults     \* I/O faults met so far

vars == <<fs, dirs, log, folder_files, use_hash, actions, shown, confirmed, pc, i,
          attempted, errors, warnings, message, progress, run, pre, last, prev,
          faults>>

----------------------------------------------------------------------------
(* Bounds *)

MaxFiles == 3      \* files in the two folders together at the start
MaxContent == 2    \* distinct file contents
MaxTime == 2       \* distinct modification times
MaxRuns == 2       \* script runs in one behaviour
MaxFaults == 1     \* I/O faults (unreadable file, failed call) in one behaviour

Sides == {1, 2}
Other(s) == 3 - s
Contents == 1 .. MaxContent
Times == 1 .. MaxTime

----------------------------------------------------------------------------
(* Paths as strings *)

SEP == <<47>>                                  \* "/"
BACKUP_DIR == <<46, 98, 97, 99, 107, 117, 112>>  \* ".backup"
BAK_SUFFIX == <<46, 98, 97, 107>>              \* ".bak"

\* The relative paths a folder may hold at the start: "a", "b", ".backup/a.bak"
InitPaths == { <<97>>, <<98>>, BACKUP_DIR \o SEP \o <<97>> \o BAK_SUFFIX }

\* Position of the last separator of p, 0 when there is none
LastSep(p) ==
    LET at == {k \in 1 .. Len(p) : p[k] = SEP[1]}
    IN  IF at = {} THEN 0 ELSE CHOOSE k \in at : \A j \in at : j <= k

\* Path.parent: the empty string stands for the folder itself
parent(p) == IF LastSep(p) = 0 THEN <<>> ELSE SubSeq(p, 1, LastSep(p) - 1)

\* Path.name
name(p) == SubSeq(p, LastSep(p) + 1, Len(p))

\* Path.__truediv__
join(d, n) == IF d = <<>> THEN n ELSE d \o SEP \o n

\* d and every directory above it, the folder itself excluded
RECURSIVE Chain(_)
Chain(d) == IF d = <<>> THEN {} ELSE {d} \cup Chain(parent(d))

\* Python's str.__lt__: code point by code point, a proper prefix is smaller
RECURSIVE StrLess(_, _)
StrLess(p, q) ==
    IF q = <<>> THEN FALSE
    ELSE IF p = <<>> THEN TRUE
    ELSE IF Head(p) # Head(q) THEN Head(p) < Head(q)
    ELSE StrLess(Tail(p), Tail(q))

backup_folder(dst) == join(parent(dst), BACKUP_DIR)
backup_path(dst) == join(backup_folder(dst), name(dst) \o BAK_SUFFIX)

----------------------------------------------------------------------------
(* The planner *)

\* A file of folder s, as the planner holds it; folder / rel_path
File(s, rel_path) == [folder |-> s, path |-> rel_path]

\* Tree Indexer: every regular file beneath the folder
index(s) == DOMAIN fs[s]

list_files_from_uploaded(s) == folder_files[s]

\* hashlib.sha256(...).hexdigest(): a non-empty string, distinct for distinct
\* contents
hexdigest(content) == <<"sha256", content>>

\* None, which like the empty string is false in "hash1 and hash2"
None == << >>
Truthy(h) == h # None /\ Len(h) > 0

\* get_file_hash: the digest, or None (after st.warning) when the file cannot
\* be read
get_file_hash(f, unreadable) ==
    IF f \in unreadable \/ f.path \notin DOMAIN fs[f.folder] THEN None
    ELSE hexdigest(fs[f.folder][f.path].content)

st_mtime(f) == fs[f.folder][f.path].mtime

Action(kind, src, dst) == [action |-> kind, src |-> src, dst |-> dst]

\* copy_branch with the destination built from the folder the file is in
copy_branch_same_folder(s, rel_path) ==
    << Action("copy", File(s, rel_path), File(s, rel_path)) >>

\* rel_path is in one folder only: copy it to the other
copy_branch(s, rel_path) ==
    << Action("copy", File(s, rel_path), File(Other(s), rel_path)) >>

\* hash_branch that refreshes folder 2 only
hash_branch_one_way(rel_path, unreadable) ==
    LET hash1 == get_file_hash(File(1, rel_path), unreadable)
        hash2 == get_file_hash(File(2, rel_path), unreadable)
    IN  IF Truthy(hash1) /\ Truthy(hash2) /\ hash1 # hash2
        THEN << Action("update", File(1, rel_path), File(2, rel_path)) >>
        ELSE << >>

\* hash_branch with the two updates in the other order
hash_branch_right_first(rel_path, unreadable) ==
    LET hash1 == get_file_hash(File(1, rel_path), unreadable)
        hash2 == get_file_hash(File(2, rel_path), unreadable)
    IN  IF Truthy(hash1) /\ Truthy(hash2) /\ hash1 # hash2
        THEN << Action("update", File(2, rel_path), File(1, rel_path)),
                Action("update", File(1, rel_path), File(2, rel_path)) >>
        ELSE << >>

\* hash_branch without the test that both digests were obtained
hash_branch_none_differs(rel_path, unreadable) ==
    LET hash1 == get_file_hash(File(1, rel_path), unreadable)
        hash2 == get_file_hash(File(2, rel_path), unreadable)
    IN  IF hash1 # hash2
        THEN << Action("update", File(1, rel_path), File(2, rel_path)),
                Action("update", File(2, rel_path), File(1, rel_path)) >>
        ELSE << >>

hash_branch(rel_path, unreadable) ==
    LET hash1 == get_file_hash(File(1, rel_path), unreadable)
        hash2 == get_file_hash(File(2, rel_path), unreadable)
    IN  IF Truthy(hash1) /\ Truthy(hash2) /\ hash1 # hash2
        THEN << Action("update", File(1, rel_path), File(2, rel_path)),
                Action("update", File(2, rel_path), File(1, rel_path)) >>
        ELSE << >>

\* mtime_branch with the two comparisons the other way round
mtime_branch_older_wins(rel_path) ==
    LET f1_mtime == st_mtime(File(1, rel_path))
        f2_mtime == st_mtime(File(2, rel_path))
    IN  IF f1_mtime < f2_mtime
        THEN << Action("update", File(1, rel_path), File(2, rel_path)) >>
        ELSE IF f2_mtime < f1_mtime
        THEN << Action("update", File(2, rel_path), File(1, rel_path)) >>
        ELSE << >>

\* mtime_branch with >= for >
mtime_branch_not_strict(rel_path) ==
    LET f1_mtime == st_mtime(File(1, rel_path))
        f2_mtime == st_mtime(File(2, rel_path))
    IN  IF f1_mtime >= f2_mtime
        THEN << Action("update", File(1, rel_path), File(2, rel_path)) >>
        ELSE IF f2_mtime > f1_mtime
        THEN << Action("update", File(2, rel_path), File(1, rel_path)) >>
        ELSE << >>

mtime_branch(rel_path) ==
    LET f1_mtime == st_mtime(File(1, rel_path))
        f2_mtime == st_mtime(File(2, rel_path))
    IN  IF f1_mtime > f2_mtime
        THEN << Action("update", File(1, rel_path), File(2, rel_path)) >>
        ELSE IF f2_mtime > f1_mtime
        THEN << Action("update", File(2, rel_path), File(1, rel_path)) >>
        ELSE << >>

\* The body of the loop of get_actions for one key
actions_for(rel_path, unreadable) ==
    LET in1 == rel_path \in list_files_from_uploaded(1)
        in2 == rel_path \in list_files_from_uploaded(2)
    IN  IF in1 /\ ~in2 THEN copy_branch(1, rel_path)
        ELSE IF in2 /\ ~in1 THEN copy_branch(2, rel_path)
        ELSE IF in1 /\ in2
        THEN IF use_hash THEN hash_branch(rel_path, unreadable)
             ELSE mtime_branch(rel_path)
        ELSE << >>

all_keys == list_files_from_uploaded(1) \cup list_files_from_uploaded(2)

\* The orders in which "for rel_path in all_keys" may visit a set of strings
iteration_orders(keys) ==
    {o \in [1 .. Cardinality(keys) -> keys] :
        \A j, k \in DOMAIN o : j # k => o[j] # o[k]}

RECURSIVE get_actions(_, _)
get_actions(order, unreadable) ==
    IF order = << >> THEN << >>
    ELSE actions_for(Head(order), unreadable) \o get_actions(Tail(order), unreadable)

\* The files get_file_hash is called on in this run
hashed_files ==
    IF use_hash
    THEN {File(s, p) : s \in Sides,
                       p \in list_files_from_uploaded(1) \cap list_files_from_uploaded(2)}
    ELSE {}

\* The files for which get_file_hash calls st.warning: those it returns None for
st_warnings(unreadable) ==
    {f \in hashed_files : get_file_hash(f, unreadable) = None}

----------------------------------------------------------------------------
(* The applier *)

Truncated == 0          \* content of a file whose copy stopped half way
Now == MaxTime + 1      \* the clock during the run, later than every mtime

\* F with path p holding file f (created or replaced)
Put(F, p, f) == [q \in DOMAIN F \cup {p} |-> IF q = p THEN f ELSE F[q]]

\* F without path p
Del(F, p) == [q \in DOMAIN F \ {p} |-> F[q]]

\* Path.mkdir(parents=True, exist_ok=True) can succeed: no file is in the way
mkdir_ok(F, d) == Chain(d) \cap DOMAIN F = {}

\* move that removes dst and keeps nothing of it
move_removes(F, dst, bak) == Del(F, dst)

\* shutil.move(dst, backup_path): a rename, which replaces a file already there
move(F, dst, bak) == Put(Del(F, dst), bak, F[dst])

\* shutil.copy2(src, dst): content and modification time of the source
copy2(srcfile, F, dst) == Put(F, dst, srcfile)

\* log_action(folder, "sync", src, dst): one line appended to the folder's log
log_action(L, a) == Append(L, <<"sync", a.src, a.dst>>)

\* log_calls in which a failed first write ends the call
log_calls_first_failure_ends(a, fault) ==
    IF fault = "log1" THEN log
    ELSE [t \in Sides |->
            IF fault = (IF t = 1 THEN "log1" ELSE "log2")
            THEN log[t] ELSE log_action(log[t], a)]

\* Lines 123-124: the log of folder 1, then the log of folder 2; a write that
\* fails leaves its log as it was and nothing else is affected
log_calls(a, fault) ==
    [t \in Sides |->
        IF fault = (IF t = 1 THEN "log1" ELSE "log2")
        THEN log[t] ELSE log_action(log[t], a)]

\* Where a call of copy_with_backup may raise, and where a log write may fail
Faults == {"none", "mkdir", "move", "copy", "copy_partial", "log1", "log2"}

\* The folder dst is in, after copy_with_backup(src, dst) under the fault:
\* [files, dirs, ok, had], ok = no exception reached the except clauses,
\* had = dst.exists() was true
copy_with_backup(a, fault) ==
    LET s == a.dst.folder
        dst == a.dst.path
        F0 == fs[s]
        D0 == dirs[s]
        bf == backup_folder(dst)
        had == dst \in DOMAIN F0
        src_there == a.src.path \in DOMAIN fs[a.src.folder]
    IN  IF fault = "mkdir" \/ ~mkdir_ok(F0, bf)
        THEN [files |-> F0, dirs |-> D0, ok |-> FALSE, had |-> FALSE]
        ELSE LET D1 == D0 \cup Chain(bf)
             IN  IF had /\ fault = "move"
                 THEN [files |-> F0, dirs |-> D1, ok |-> FALSE, had |-> had]
                 ELSE LET F1 == IF had THEN move(F0, dst, backup_path(dst)) ELSE F0
                      IN  IF fault = "copy" \/ ~src_there
                          THEN [files |-> F1, dirs |-> D1, ok |-> FALSE, had |-> had]
                          ELSE IF fault = "copy_partial"
                          THEN [files |-> Put(F1, dst, [content |-> Truncated, mtime |-> Now]),
                                dirs |-> D1, ok |-> FALSE, had |-> had]
                          ELSE [files |-> copy2(fs[a.src.folder][a.src.path], F1, dst),
                                dirs |-> D1, ok |-> TRUE, had |-> had]

----------------------------------------------------------------------------
(* The script *)

FileRecs == [content : Contents, mtime : Times]
Trees == UNION {[D -> FileRecs] : D \in SUBSET InitPaths}

NoLast == [k |-> 0]

Init ==
    /\ fs \in {f \in [Sides -> Trees] :
                 Cardinality(DOMAIN f[1]) + Cardinality(DOMAIN f[2]) <= MaxFiles}
    /\ dirs = [s \in Sides |-> UNION {Chain(parent(p)) : p \in DOMAIN fs[s]}]
    /\ log = [s \in Sides |-> << >>]
    /\ folder_files = [s \in Sides |-> DOMAIN fs[s]]
    /\ use_hash \in BOOLEAN
    /\ actions = << >>
    /\ shown = << >>
    /\ confirmed = FALSE
    /\ pc = "start"
    /\ i = 1
    /\ attempted = << >>
    /\ errors = {}
    /\ warnings = {}
    /\ message = "none"
    /\ progress = <<0, 0>>
    /\ run = 1
    /\ pre = [fs |-> fs, dirs |-> dirs, unreadable |-> {}]
    /\ last = NoLast
    /\ prev = [synced |-> FALSE, failed |-> FALSE]
    /\ faults = 0

\* after_summary that goes on to perform_sync without the button
after_summary_no_button == "sync"

\* Line 142: after show_summary the script stands at st.button
after_summary == "button"

\* next_index of a loop that a failed call ends
next_index_stop_on_error(k, ok) == IF ok THEN k + 1 ELSE Len(actions) + 1

\* Lines 105-107: the loop goes on to the next action whatever the call did
next_index(k, ok) == k + 1

\* nth_action of a loop that plans again, over the folders as they are at the
\* time of the call
nth_action_replanned(k) ==
    LET again == get_actions(CHOOSE o \in iteration_orders(all_keys) : TRUE, {})
    IN  IF (\A s \in Sides : folder_files[s] \subseteq DOMAIN fs[s]) /\ k \in DOMAIN again
        THEN again[k]
        ELSE actions[k]

\* Line 105: the loop runs over the plan perform_sync was given, the one
\* computed at line 139
nth_action(k) == actions[k]

\* Lines 132-141 and 144-147: plan, then present the plan or report
Main ==
    /\ pc = "start"
    /\ IF folder_files[1] # {} /\ folder_files[2] # {}
       THEN \E order \in iteration_orders(all_keys), unreadable \in SUBSET hashed_files :
                /\ faults + Cardinality(unreadable) <= MaxFaults
                /\ faults' = faults + Cardinality(unreadable)
                /\ actions' = get_actions(order, unreadable)
                /\ warnings' = st_warnings(unreadable)
                /\ pre' = [fs |-> fs, dirs |-> dirs, unreadable |-> unreadable]
                /\ IF actions' # << >>
                   THEN /\ shown' = actions'
                        /\ pc' = after_summary
                        /\ message' = message
                   ELSE /\ shown' = shown
                        /\ pc' = "end"
                        /\ message' = "Folders are already in sync."
       ELSE /\ message' = "Please drag and drop files from both folders to begin."
            /\ pc' = "end"
            /\ pre' = [fs |-> fs, dirs |-> dirs, unreadable |-> {}]
            /\ UNCHANGED <<actions, shown, warnings, faults>>
    /\ UNCHANGED <<fs, dirs, log, folder_files, use_hash, confirmed, i, attempted,
                   errors, progress, run, last, prev>>

\* Line 142, the button pressed: perform_sync starts (lines 103-104)
Confirm ==
    /\ pc = "button"
    /\ pc' = "sync"
    /\ confirmed' = TRUE
    /\ i' = 1
    /\ progress' = <<0, Len(actions)>>
    /\ UNCHANGED <<fs, dirs, log, folder_files, use_hash, actions, shown, attempted,
                   errors, warnings, message, run, pre, last, prev, faults>>

\* Line 142, the button not pressed: the script ends
Decline ==
    /\ pc = "button"
    /\ pc' = "end"
    /\ UNCHANGED <<fs, dirs, log, folder_files, use_hash, actions, shown, confirmed,
                   i, attempted, errors, warnings, message, progress, run, pre, last, prev, faults>>

\* Lines 105-107: one turn of the loop of perform_sync, under a fault
SyncStep(fault) ==
    /\ pc = "sync"
    /\ i <= Len(actions)
    /\  LET a == nth_action(i)
            s == a.dst.folder
            r == copy_with_backup(a, fault)
        IN  /\ fault # "none" => faults < MaxFaults
            /\ faults' = IF fault = "none" THEN faults ELSE faults + 1
            /\ fs' = [fs EXCEPT ![s] = r.files]
            /\ dirs' = [dirs EXCEPT ![s] = r.dirs]
            /\ log' = IF r.ok THEN log_calls(a, fault) ELSE log
            /\ errors' = IF r.ok THEN errors ELSE errors \cup {i}
            /\ last' = [k |-> i, a |-> a, fault |-> fault, ok |-> r.ok, had |-> r.had,
                        pok |-> IF last.k >= 1 THEN last.ok ELSE FALSE,
                        pold |-> IF last.k >= 1 THEN last.old ELSE Truncated,
                        old |-> IF a.dst.path \in DOMAIN fs[s]
                                THEN fs[s][a.dst.path].content ELSE Truncated,
                        new |-> IF a.src.path \in DOMAIN fs[a.src.folder]
                                THEN fs[a.src.folder][a.src.path].content ELSE Truncated]
    /\ attempted' = Append(attempted, i)
    /\ progress' = <<i, Len(actions)>>
    /\ i' = next_index(i, last'.ok)
    /\ UNCHANGED <<folder_files, use_hash, actions, shown, confirmed, pc, warnings, message,
                   run, pre, prev>>

\* A turn of the loop in which nothing fails
SyncOk == SyncStep("none")

\* A turn of the loop in which a call fails
SyncFault == \E fault \in Faults \ {"none"} : SyncStep(fault)

\* Line 108
SyncDone ==
    /\ pc = "sync"
    /\ i > Len(actions)
    /\ message' = "Sync complete!"
    /\ pc' = "end"
    /\ UNCHANGED <<fs, dirs, log, folder_files, use_hash, actions, shown, confirmed,
                   i, attempted, errors, warnings, progress, run, pre, last, prev, faults>>

\* The script is run again over the two folders as they now are
Rerun ==
    /\ pc = "end"
    /\ run < MaxRuns
    /\ run' = run + 1
    /\ folder_files' = [s \in Sides |-> index(s)]
    /\ prev' = [synced |-> message = "Sync complete!", failed |-> errors # {}]
    /\ actions' = << >>
    /\ shown' = << >>
    /\ confirmed' = FALSE
    /\ pc' = "start"
    /\ i' = 1
    /\ attempted' = << >>
    /\ errors' = {}
    /\ warnings' = {}
    /\ message' = "none"
    /\ progress' = <<0, 0>>
    /\ last' = NoLast
    /\ pre' = [fs |-> fs, dirs |-> dirs, unreadable |-> {}]
    /\ UNCHANGED <<fs, dirs, log, use_hash, faults>>

\* Between the presentation of the plan and the answer, something else writes
\* or removes a file of one of the folders
External ==
    /\ pc = "button"
    /\ fs = pre.fs
    /\ \E s \in Sides : \E p \in DOMAIN fs[s] :
          \/ \E c \in Contents :
                fs' = [fs EXCEPT ![s] = Put(fs[s], p, [content |-> c, mtime |-> Now])]
          \/ fs' = [fs EXCEPT ![s] = Del(fs[s], p)]
    /\ UNCHANGED <<dirs, log, folder_files, use_hash, actions, shown, confirmed, pc, i,
                   attempted, errors, warnings, message, progress, run, pre, last,
                   prev, faults>>

\* One run of the script, I/O faults included
Next == Main \/ Confirm \/ Decline \/ SyncOk \/ SyncFault \/ SyncDone

Spec == Init /\ [][Next]_vars

\* The planner alone
SpecPlan == Init /\ [][Main]_vars

\* Runs in which every call of the applier succeeds, one after the other
NextRerun == Main \/ Confirm \/ Decline \/ SyncOk \/ SyncDone \/ Rerun

SpecRerun == Init /\ [][NextRerun]_vars

\* One run in which every call of the applier is free of faults of its own,
\* while the folders may change under the presented plan
NextExternal == Main \/ Confirm \/ Decline \/ External \/ SyncOk \/ SyncDone

SpecExternal == Init /\ [][NextExternal]_vars

----------------------------------------------------------------------------
(* Properties of the planner *)

\* get_actions has been called in this run and has returned
Planned == pc # "start" /\ folder_files[1] # {} /\ folder_files[2] # {}

\* The paths in both folders, and those in folder s only
Shared == folder_files[1] \cap folder_files[2]
OnlyIn(s) == folder_files[s] \ folder_files[Other(s)]

\* The positions of the plan whose action is for rel_path
ActionsAt(rel_path) == {k \in DOMAIN actions : actions[k].dst.path = rel_path}

\* The file at rel_path in folder s when the plan was computed
Was(s, rel_path) == pre.fs[s][rel_path]

\* Both fingerprints of the pair at rel_path were obtained
Fingerprinted(rel_path) ==
    File(1, rel_path) \notin pre.unreadable /\ File(2, rel_path) \notin pre.unreadable

\* C3 (Completeness): in either mode, a relative path present in exactly one
\* folder has exactly one action in the plan, a Copy from the file on the side
\* that has it to the same relative path under the other folder; there is no
\* Update for it.
C3_Completeness ==
    Planned =>
        \A s \in Sides : \A p \in OnlyIn(s) :
            /\ Cardinality(ActionsAt(p)) = 1
            /\ \A k \in ActionsAt(p) :
                   actions[k] = Action("copy", File(s, p), File(Other(s), p))
            /\ \A k \in DOMAIN actions :
                   actions[k].src.path = p => k \in ActionsAt(p)

\* C3 witness: a hash-mode plan over folders of which one has a path the other
\* lacks, next to a pair that differs
C3_Witness ==
    /\ Planned /\ use_hash
    /\ OnlyIn(2) # {}
    /\ \E k \in DOMAIN actions : actions[k].action = "update"
    /\ \E k \in DOMAIN actions : actions[k].action = "copy"

\* C4 (Directionality, timestamp mode): a path in both folders whose
\* modification times differ has exactly one action, an Update from the
\* strictly newer file to the older side; no action has the newer file as its
\* destination.
C4_Directionality ==
    (Planned /\ ~use_hash) =>
        \A p \in Shared : \A s \in Sides :
            Was(s, p).mtime > Was(Other(s), p).mtime =>
                /\ Cardinality(ActionsAt(p)) = 1
                /\ \A k \in ActionsAt(p) :
                       actions[k] = Action("update", File(s, p), File(Other(s), p))
                /\ \A k \in DOMAIN actions : actions[k].dst # File(s, p)

\* C4 witness: a timestamp-mode plan with an Update into folder 1
C4_Witness ==
    /\ Planned /\ ~use_hash
    /\ \E p \in Shared :
          /\ Was(2, p).mtime > Was(1, p).mtime
          /\ \E k \in DOMAIN actions :
                actions[k] = Action("update", File(2, p), File(1, p))

\* C5 (Symmetry, hash mode): a path in both folders whose two fingerprints
\* were obtained and differ has exactly two actions, an Update from folder 1
\* to folder 2 and an Update from folder 2 to folder 1, whatever the
\* modification times.
C5_Symmetry ==
    (Planned /\ use_hash) =>
        \A p \in Shared :
            (Fingerprinted(p) /\ Was(1, p).content # Was(2, p).content) =>
                /\ Cardinality(ActionsAt(p)) = 2
                /\ \E k \in ActionsAt(p) :
                       actions[k] = Action("update", File(1, p), File(2, p))
                /\ \E k \in ActionsAt(p) :
                       actions[k] = Action("update", File(2, p), File(1, p))

\* C5 witness: a hash-mode plan for a pair of different content and equal
\* modification time
C5_Witness ==
    /\ Planned /\ use_hash
    /\ \E p \in Shared :
          /\ Fingerprinted(p)
          /\ Was(1, p).content # Was(2, p).content
          /\ Was(1, p).mtime = Was(2, p).mtime
          /\ Cardinality(ActionsAt(p)) = 2

\* C6 (No action for in-sync files): a path in both folders has no action when,
\* in hash mode, the two fingerprints are equal (whatever the modification
\* times), or when, in timestamp mode, the two modification times are equal
\* (whatever the contents).
C6_InSync ==
    Planned =>
        \A p \in Shared :
            (\/ /\ use_hash
                /\ Fingerprinted(p)
                /\ Was(1, p).content = Was(2, p).content
             \/ /\ ~use_hash
                /\ Was(1, p).mtime = Was(2, p).mtime)
            => ActionsAt(p) = {}

\* C6 witness: a timestamp-mode plan that has an action for some path and none
\* for a pair of equal modification time and different content
C6_Witness ==
    /\ Planned /\ ~use_hash
    /\ actions # << >>
    /\ \E p \in Shared :
          /\ Was(1, p).mtime = Was(2, p).mtime
          /\ Was(1, p).content # Was(2, p).content
          /\ ActionsAt(p) = {}

\* C7 (Deterministic plan order): the actions of the plan are in lexicographic
\* order of relative path, an action for a smaller path before one for a larger.
C7_PlanOrder ==
    Planned =>
        \A j, k \in DOMAIN actions :
            j < k => ~StrLess(actions[k].dst.path, actions[j].dst.path)

----------------------------------------------------------------------------
(* Properties of the applier and of the run *)

\* The last call of copy_with_backup, if there was one in this run
LastAction == actions[last.k]

\* The run applied its plan to the end and no call reported a failure
AppliedAll == confirmed /\ pc = "end" /\ errors = {}

\* C1 (Backup preservation): after copy_with_backup has completed without
\* failure for an Update whose destination existed with content X and whose
\* source had content S, .backup/<base name>.bak beside the destination holds
\* X and the destination holds S.
C1_BackupPreservation ==
    (last.k >= 1 /\ last.ok /\ last.had /\ LastAction.action = "update") =>
        LET d == LastAction.dst
        IN  /\ backup_path(d.path) \in DOMAIN fs[d.folder]
            /\ fs[d.folder][backup_path(d.path)].content = last.old
            /\ d.path \in DOMAIN fs[d.folder]
            /\ fs[d.folder][d.path].content = last.new

\* C1 witness: an Update has just replaced a destination whose content differed
\* from the source's
C1_Witness ==
    /\ last.k >= 1 /\ last.ok /\ last.had
    /\ LastAction.action = "update"
    /\ last.old # last.new

\* C2 (Idempotence): after a timestamp-mode plan has been applied in full
\* without failure, the next timestamp-mode plan, over the two folders indexed
\* again, is empty.
C2_Idempotence ==
    (run >= 2 /\ Planned /\ ~use_hash /\ prev.synced /\ ~prev.failed) =>
        actions = << >>

\* C8 (Convergence, timestamp mode): after a timestamp-mode plan has been
\* applied in full without failure, every path that had an action is in both
\* folders with the content its source had when the plan was made, and for
\* each Update the destination's previous content is in .backup/<name>.bak
\* beside the destination.
C8_Convergence ==
    (AppliedAll /\ ~use_hash) =>
        \A k \in DOMAIN actions :
            LET a == actions[k]
                p == a.dst.path
                want == Was(a.src.folder, p).content
            IN  /\ \A s \in Sides :
                       p \in DOMAIN fs[s] /\ fs[s][p].content = want
                /\ a.action = "update" =>
                       /\ backup_path(p) \in DOMAIN fs[a.dst.folder]
                       /\ fs[a.dst.folder][backup_path(p)].content
                              = Was(a.dst.folder, p).content

\* The indices 1 .. n in order
Upto(n) == [k \in 1 .. n |-> k]

\* C9 (Continue on error): a failing action is reported, and perform_sync
\* hands every action of the plan to copy_with_backup exactly once and in plan
\* order, whatever failed before.
C9_ContinueOnError ==
    /\ pc = "sync" => (i <= Len(actions) + 1 /\ attempted = Upto(i - 1))
    /\ (confirmed /\ pc = "end") => attempted = Upto(Len(actions))
    /\ \A k \in errors : k \in DOMAIN attempted
    /\ (last.k >= 1 /\ ~last.ok) => last.k \in errors

\* C9 witness: the run is over, an action failed and a later one succeeded
C9_Witness ==
    /\ confirmed /\ pc = "end"
    /\ \E k \in errors : \E j \in DOMAIN attempted : j > k /\ j \notin errors

\* C10 (Plan before mutation): nothing under either folder differs from what
\* was there when the run began unless the whole plan has been presented and
\* the caller has confirmed; without confirmation, or with an empty plan, both
\* folders stay as they were.
C10_PlanBeforeMutation ==
    (fs # pre.fs \/ dirs # pre.dirs) =>
        (confirmed /\ actions # << >> /\ shown = actions)

\* C10 witness: after confirmation of the presented plan a file has changed
C10_Witness ==
    confirmed /\ shown = actions /\ fs # pre.fs

----------------------------------------------------------------------------
(* Properties of reporting and of fingerprint failures *)

\* C11 (Final summary): the report that ends a run in which at least one
\* action failed differs from the report that ends a run in which every
\* action succeeded.
C11_FinalSummary ==
    (confirmed /\ pc = "end") =>
        (message = "Sync complete!" <=> errors = {})

\* C12 (Fingerprint failure skips the pair): in hash mode, a path in both
\* folders of which a fingerprint was not obtained has no action in the plan,
\* the unreadable file is named in a warning, and the other paths are planned
\* as usual.
C12_FingerprintFailure ==
    (Planned /\ use_hash) =>
        /\ \A p \in Shared :
              ~Fingerprinted(p) =>
                 /\ ActionsAt(p) = {}
                 /\ \A k \in DOMAIN actions : actions[k].src.path # p
        /\ \A f \in pre.unreadable : f \in warnings
        /\ \A s \in Sides : \A p \in OnlyIn(s) : ActionsAt(p) # {}
        /\ \A p \in Shared :
              (Fingerprinted(p) /\ Was(1, p).content # Was(2, p).content)
                  => ActionsAt(p) # {}

\* C12 witness: a hash-mode plan that has an action for some path and none for
\* a pair of different content of which one file could not be read
C12_Witness ==
    /\ Planned /\ use_hash
    /\ actions # << >>
    /\ \E p \in Shared :
          /\ ~Fingerprinted(p)
          /\ Was(1, p).content # Was(2, p).content
          /\ ActionsAt(p) = {}

\* C13 (Indeterminate is not identical): a hash-mode run in which the
\* fingerprint of some path in both folders was not obtained does not report
\* the folders as already in sync.
C13_Indeterminate ==
    (Planned /\ use_hash /\ pre.unreadable # {}) =>
        message # "Folders are already in sync."

----------------------------------------------------------------------------
(* Properties of one call of the applier *)

\* The content at path p of folder s now, Truncated when there is no file
ContentNow(s, p) == IF p \in DOMAIN fs[s] THEN fs[s][p].content ELSE Truncated

C15_NoRollback ==
    (/\ last.k >= 1 /\ ~last.ok /\ last.had
     /\ last.a.action = "update"
     /\ last.fault \notin {"mkdir", "move"}) =>
        LET d == last.a.dst
        IN  /\ d.path \notin DOMAIN fs[d.folder]
            /\ ContentNow(d.folder, backup_path(d.path)) = last.old
            /\ ContentNow(last.a.src.folder, last.a.src.path) = last.new

----------------------------------------------------------------------------
(* Properties of the plan that is applied *)

PairApplied ==
    /\ use_hash
    /\ last.k >= 2 /\ last.ok /\ last.pok
    /\ last.a.action = "update"
    /\ actions[last.k - 1].action = "update"
    /\ actions[last.k - 1].dst.path = last.a.dst.path
    /\ actions[last.k - 1].dst.folder # last.a.dst.folder

\* What folder 1 (left) and folder 2 (right) held at the path before the pair
LeftBefore == IF last.a.dst.folder = 1 THEN last.old ELSE last.pold
RightBefore == IF last.a.dst.folder = 1 THEN last.pold ELSE last.old

\* C17 (Outcome of the hash-mode pair of Updates): for a path whose left
\* content L and right content R differ, once the two Updates have been
\* applied without failure both files hold L, the left .backup/<name>.bak
\* holds L, and R is left only in the right .backup/<name>.bak.
C17_HashPairOutcome ==
    (PairApplied /\ LeftBefore # RightBefore) =>
        LET p == last.a.dst.path
        IN  /\ ContentNow(1, p) = LeftBefore
            /\ ContentNow(2, p) = LeftBefore
            /\ ContentNow(1, backup_path(p)) = LeftBefore
            /\ ContentNow(2, backup_path(p)) = RightBefore

\* C17 witness: the pair has just been applied to files of different content
C17_Witness ==
    /\ PairApplied
    /\ LeftBefore # RightBefore
    /\ last.a.dst.folder = 1

\* What one turn of the loop may change, for the action it is about to apply
FrameKept ==
    LET a == actions[i]
        s == a.dst.folder
        p == a.dst.path
        had == p \in DOMAIN fs[s]
        own == {p} \cup (IF had THEN {backup_path(p)} ELSE {})
    IN  /\ fs'[Other(s)] = fs[Other(s)]
        /\ dirs'[Other(s)] = dirs[Other(s)]
        /\ \A q \in (DOMAIN fs[s] \cup DOMAIN fs'[s]) \ own :
               /\ q \in DOMAIN fs[s]
               /\ q \in DOMAIN fs'[s]
               /\ fs'[s][q] = fs[s][q]
        /\ dirs[s] \subseteq dirs'[s]
        /\ dirs'[s] \ dirs[s] \subseteq
               Chain(parent(p)) \cup (IF had THEN Chain(backup_folder(p)) ELSE {})

\* C18 (Frame of one applied action): applying one action changes nothing in
\* either folder but the destination file, the missing directories above the
\* destination and, when the destination existed, .backup/<name>.bak beside
\* it; the source and every other file keep content and modification time.
C18_Frame == [][(pc = "sync" /\ i <= Len(actions)) => FrameKept]_vars

\* C19 (Backups survive the run that made them): no two actions of a plan have
\* the same destination, and after a run applied in full without failure every
\* destination that existed before the run has its content of then in
\* .backup/<name>.bak beside it.
C19_BackupsSurvive ==
    AppliedAll =>
        /\ \A j, k \in DOMAIN actions : j # k => actions[j].dst # actions[k].dst
        /\ \A k \in DOMAIN actions :
              LET d == actions[k].dst
              IN  d.path \in DOMAIN pre.fs[d.folder] =>
                     ContentNow(d.folder, backup_path(d.path))
                         = Was(d.folder, d.path).content

====
